---------------------------- MODULE Spec2Model ----------------------------
(***************************************************************************)
(* A model of timestamp_channel.py: a storage covert channel that hides a  *)
(* payload file in the sub-second digits of the creation, access and       *)
(* modification times of the regular files of a directory (the carriers).  *)
(*                                                                         *)
(* Representation.  TLC's integers are 32 bits wide; Python's are not.  A  *)
(* Python int that can exceed 32 bits (the value of a data chunk, up to    *)
(* 256^5 - 1) is held as its canonical decimal digit sequence, most        *)
(* significant digit first, <<0>> for zero, and arithmetic on it is done   *)
(* digit by digit.  A Python str of decimal digits is the sequence of its  *)
(* digits (0..9); a bytes object is the sequence of its bytes (0..255).    *)
(* A timestamp is held as whole seconds and a sub-second part.             *)
(*                                                                         *)
(* Specifications.  All four run the same hide and extract; they differ in *)
(* the inputs they start from.                                             *)
(*   Spec         short input files, directories of a few more or fewer    *)
(*                carriers than the file needs, hide and extract in any    *)
(*                order, hide up to MaxHides times.                        *)
(*   SpecPlan     the first hide of files of zero bytes, short ones and    *)
(*                the two lengths around the capacity of the channel.      *)
(*   SpecExample  the 10 bytes 0x00..0x09 named "p.bin", 50 carriers.      *)
(*   SpecCodec    one step of hide's loop and one step of extract's loop   *)
(*                on a single chunk of 0..C+1 bytes.                       *)
(***************************************************************************)
EXTENDS Integers, Sequences, FiniteSets, TLC

----------------------------------------------------------------------------
(* Sequence helpers (Python slicing and list operations).                   *)

Front(s) == SubSeq(s, 1, Len(s) - 1)

Last(s) == s[Len(s)]

\* s[n:] of Python
DropFirst(s, n) == SubSeq(s, n + 1, Len(s))

\* The sequence of n copies of x ('9'*n, b'\x00'*n).
Repeat(x, n) == [i \in 1..n |-> x] \o <<>>

\* A for loop over lo..hi: acc is the loop's state before the first iteration,
\* Body(acc, i) the state after iteration i.  The range is split in halves
\* so that long loops do not nest deeply; the iterations still run in order.
RECURSIVE For(_, _, _, _)
For(Body(_, _), acc, lo, hi) ==
    IF lo > hi THEN acc
    ELSE IF lo = hi THEN Body(acc, lo)
    ELSE LET mid  == (lo + hi) \div 2
             half == For(Body, acc, lo, mid)
         IN  \* (the test makes TLC finish the first half before the second)
             IF {half} # {} THEN For(Body, half, mid + 1, hi) ELSE acc

\* The number of elements of the sorted sequence out, among those at
\* positions lo..hi and before, that are not greater than x (binary search).
RECURSIVE InsertPos(_, _, _, _, _)
InsertPos(Less(_, _), out, x, lo, hi) ==
    IF lo > hi THEN lo - 1
    ELSE LET mid == (lo + hi) \div 2
         IN  IF Less(x, out[mid])
             THEN InsertPos(Less, out, x, lo, mid - 1)
             ELSE InsertPos(Less, out, x, mid + 1, hi)

\* sorted(xs) for the order Less: each element in turn is put after the
\* elements not greater than it.
SortBy(Less(_, _), xs) ==
    LET Body(out, i) ==
            LET n == InsertPos(Less, out, xs[i], 1, Len(out))
            IN  SubSeq(out, 1, n) \o <<xs[i]>> \o SubSeq(out, n + 1, Len(out))
    IN  For(Body, <<>>, 1, Len(xs))

----------------------------------------------------------------------------
(* Python ints as decimal digit sequences.                                  *)

\* The canonical form: leading zeros removed, <<0>> for zero.  int(s) of a
\* digit string s.
RECURSIVE int(_)
int(s) ==
    IF Len(s) <= 1 THEN (IF s = <<>> THEN <<0>> ELSE s)
    ELSE IF s[1] = 0 THEN int(Tail(s)) ELSE s

\* str(n) for an int n >= 0 that fits TLC's integers.
RECURSIVE str(_)
str(n) == IF n < 10 THEN <<n>> ELSE str(n \div 10) \o <<n % 10>>

\* The value of a digit string that fits TLC's integers.
RECURSIVE SmallInt(_)
SmallInt(s) == IF s = <<>> THEN 0 ELSE SmallInt(Front(s)) * 10 + Last(s)

\* The digits of x * m + carry, not yet canonical (m <= 256, carry small).
RECURSIVE MulAddDigits(_, _, _)
MulAddDigits(x, m, carry) ==
    IF x = <<>> THEN (IF carry = 0 THEN <<>> ELSE str(carry))
    ELSE LET v == Last(x) * m + carry
         IN  MulAddDigits(Front(x), m, v \div 10) \o <<v % 10>>

\* x * m + a on digit sequences.
BigMulAdd(x, m, a) == int(MulAddDigits(x, m, a))

\* Long division of the digit sequence x by m, from digit position i on, with
\* remainder rem carried in: the quotient's digits and the final remainder.
RECURSIVE LongDiv(_, _, _, _)
LongDiv(x, m, i, rem) ==
    IF i > Len(x) THEN [q |-> <<>>, r |-> rem]
    ELSE LET cur  == rem * 10 + x[i]
             rest == LongDiv(x, m, i + 1, cur % m)
         IN  [q |-> <<cur \div m>> \o rest.q, r |-> rest.r]

\* x // m and x % m (m <= 256).
BigDiv(x, m) == int(LongDiv(x, m, 1, 0).q)

BigMod(x, m) == LongDiv(x, m, 1, 0).r

\* The number of bits of a value below 256.
RECURSIVE SmallBits(_)
SmallBits(v) == IF v = 0 THEN 0 ELSE 1 + SmallBits(v \div 2)

\* int.bit_length: 8 bits for each base-256 digit below the leading one, and
\* the bits of the leading one.
RECURSIVE bit_length(_)
bit_length(x) ==
    IF Len(x) <= 3 /\ SmallInt(x) < 256 THEN SmallBits(SmallInt(x))
    ELSE 8 + bit_length(BigDiv(x, 256))

\* x.to_bytes(length, 'big'), for an x that fits in length bytes.
RECURSIVE to_bytes(_, _)
to_bytes(x, length) ==
    IF length = 0 THEN <<>>
    ELSE to_bytes(BigDiv(x, 256), length - 1) \o <<BigMod(x, 256)>>

----------------------------------------------------------------------------
(* Module-level helpers of timestamp_channel.py.                            *)

\* prepend_zeroes: '0' is put in front while the string is shorter than n; a
\* string of n or more characters is returned as it is.
prepend_zeroes(num_string, n) ==
    IF Len(num_string) < n
    THEN Repeat(0, n - Len(num_string)) \o num_string
    ELSE num_string

int_to_bytes(x) == to_bytes(x, (bit_length(x) + 7) \div 8)

\* int.from_bytes(xbytes, 'big')
RECURSIVE int_from_bytes(_)
int_from_bytes(xbytes) ==
    IF xbytes = <<>> THEN <<0>>
    ELSE BigMulAdd(int_from_bytes(Front(xbytes)), 256, Last(xbytes))

\* int_byte_size with the quotient rounded up to the next whole byte.
int_byte_size_up(digits) == bit_length(int(Repeat(9, digits))) \div 8 + 1

\* int(int('9'*digits).bit_length() / 8): the float quotient of two small
\* ints, truncated.
int_byte_size(digits) == bit_length(int(Repeat(9, digits))) \div 8

DIGITS_FOR_INDEX == 4

TOTAL_DIGITS == 17

STORABLE_DIGITS_PER_FILE == TOTAL_DIGITS - DIGITS_FOR_INDEX

STORABLE_BYTES_PER_FILE == int_byte_size(STORABLE_DIGITS_PER_FILE - 1)

ERROR_CORRECTING_BYTES == 50

\* int('9'*DIGITS_FOR_INDEX)
RECURSIVE Nines(_)
Nines(k) == IF k = 0 THEN 0 ELSE Nines(k - 1) * 10 + 9


----------------------------------------------------------------------------
(* reedsolo.RSCodec(ERROR_CORRECTING_BYTES): a systematic Reed-Solomon code  *)
(* over GF(2^8) (primitive polynomial 0x11d, generator 2, first consecutive *)
(* root 0), applied to blocks of at most RS_NSIZE bytes.                    *)

RS_NSIZE == 255

\* Bitwise exclusive or of two bytes.
RECURSIVE Xor(_, _)
Xor(x, y) ==
    IF x = 0 THEN y
    ELSE IF y = 0 THEN x
    ELSE 2 * Xor(x \div 2, y \div 2) + ((x + y) % 2)

\* The table of the powers of the generator, as init_tables builds it:
\* gf_exp[i + 1] is 2^i in GF(2^8), i in 0..254 (each entry the double of the
\* one before, reduced by the primitive polynomial 0x11d when it passes 255).
gf_exp ==
<<
    1, 2, 4, 8, 16, 32, 64, 128, 29, 58, 116, 232, 205, 135, 19, 38, 76,
    152, 45, 90, 180, 117, 234, 201, 143, 3, 6, 12, 24, 48, 96, 192,
    157, 39, 78, 156, 37, 74, 148, 53, 106, 212, 181, 119, 238, 193,
    159, 35, 70, 140, 5, 10, 20, 40, 80, 160, 93, 186, 105, 210, 185,
    111, 222, 161, 95, 190, 97, 194, 153, 47, 94, 188, 101, 202, 137,
    15, 30, 60, 120, 240, 253, 231, 211, 187, 107, 214, 177, 127, 254,
    225, 223, 163, 91, 182, 113, 226, 217, 175, 67, 134, 17, 34, 68,
    136, 13, 26, 52, 104, 208, 189, 103, 206, 129, 31, 62, 124, 248,
    237, 199, 147, 59, 118, 236, 197, 151, 51, 102, 204, 133, 23, 46,
    92, 184, 109, 218, 169, 79, 158, 33, 66, 132, 21, 42, 84, 168, 77,
    154, 41, 82, 164, 85, 170, 73, 146, 57, 114, 228, 213, 183, 115,
    230, 209, 191, 99, 198, 145, 63, 126, 252, 229, 215, 179, 123, 246,
    241, 255, 227, 219, 171, 75, 150, 49, 98, 196, 149, 55, 110, 220,
    165, 87, 174, 65, 130, 25, 50, 100, 200, 141, 7, 14, 28, 56, 112,
    224, 221, 167, 83, 166, 81, 162, 89, 178, 121, 242, 249, 239, 195,
    155, 43, 86, 172, 69, 138, 9, 18, 36, 72, 144, 61, 122, 244, 245,
    247, 243, 251, 235, 203, 139, 11, 22, 44, 88, 176, 125, 250, 233,
    207, 131, 27, 54, 108, 216, 173, 71, 142 >>

\* The table of logarithms: gf_log[x] is the i with 2^i = x, x in 1..255.
gf_log ==
<<
    0, 1, 25, 2, 50, 26, 198, 3, 223, 51, 238, 27, 104, 199, 75, 4, 100,
    224, 14, 52, 141, 239, 129, 28, 193, 105, 248, 200, 8, 76, 113, 5,
    138, 101, 47, 225, 36, 15, 33, 53, 147, 142, 218, 240, 18, 130, 69,
    29, 181, 194, 125, 106, 39, 249, 185, 201, 154, 9, 120, 77, 228,
    114, 166, 6, 191, 139, 98, 102, 221, 48, 253, 226, 152, 37, 179, 16,
    145, 34, 136, 54, 208, 148, 206, 143, 150, 219, 189, 241, 210, 19,
    92, 131, 56, 70, 64, 30, 66, 182, 163, 195, 72, 126, 110, 107, 58,
    40, 84, 250, 133, 186, 61, 202, 94, 155, 159, 10, 21, 121, 43, 78,
    212, 229, 172, 115, 243, 167, 87, 7, 112, 192, 247, 140, 128, 99,
    13, 103, 74, 222, 237, 49, 197, 254, 24, 227, 165, 153, 119, 38,
    184, 180, 124, 17, 68, 146, 217, 35, 32, 137, 46, 55, 63, 209, 91,
    149, 188, 207, 205, 144, 135, 151, 178, 220, 252, 190, 97, 242, 86,
    211, 171, 20, 42, 93, 158, 132, 60, 57, 83, 71, 109, 65, 162, 31,
    45, 67, 216, 183, 123, 164, 118, 196, 23, 73, 236, 127, 12, 111,
    246, 108, 161, 59, 82, 41, 157, 85, 170, 251, 96, 134, 177, 187,
    204, 62, 90, 203, 89, 95, 176, 156, 169, 160, 81, 11, 245, 22, 235,
    122, 117, 44, 215, 79, 174, 213, 233, 230, 231, 173, 232, 116, 214,
    244, 234, 168, 80, 88, 175 >>

gf_mul(x, y) ==
    IF x = 0 \/ y = 0 THEN 0 ELSE gf_exp[((gf_log[x] + gf_log[y]) % 255) + 1]

\* rs_generator_poly(ERROR_CORRECTING_BYTES): the product of (x - 2^i) for
\* i in 0..49 over GF(2^8), highest degree first (51 coefficients).
rs_gen ==
<<
    1, 247, 51, 213, 209, 198, 58, 199, 159, 162, 134, 224, 25, 156, 8,
    162, 206, 100, 176, 224, 36, 159, 135, 157, 230, 102, 162, 46, 230,
    176, 239, 176, 15, 60, 181, 87, 157, 31, 190, 151, 47, 61, 62, 235,
    255, 151, 215, 239, 247, 109, 167 >>

\* One step of the synthetic division of rs_encode_msg: coef times the
\* generator is subtracted from the nsym positions rem that follow the
\* current one, and rem moves on by one position; nothing is subtracted
\* when coef is 0.
RSDivideStep(rem, coef) ==
    IF coef = 0 THEN Tail(rem) \o <<0>>
    ELSE [j \in 1..ERROR_CORRECTING_BYTES |->
             Xor(IF j < ERROR_CORRECTING_BYTES THEN rem[j + 1] ELSE 0,
                 gf_mul(rs_gen[j + 1], coef))] \o <<>>

\* rs_encode_msg: the message followed by its nsym parity bytes, the
\* remainder of the synthetic division of the message (shifted by nsym
\* places) by the generator.  rem holds the nsym positions after the
\* current one (positions past the message start as 0), so after the last
\* message position it is the parity.
rs_encode_msg(msg_in) ==
    LET Body(rem, i) == RSDivideStep(rem, Xor(msg_in[i], rem[1]))
    IN  msg_in \o For(Body, Repeat(0, ERROR_CORRECTING_BYTES), 1, Len(msg_in))

\* RSCodec.encode: the data is cut into blocks of RS_NSIZE - nsym bytes and
\* each block is encoded on its own; the encoded blocks are concatenated.
RSEncode(data) ==
    LET size == RS_NSIZE - ERROR_CORRECTING_BYTES
        Body(enc, k) ==
            enc \o rs_encode_msg(SubSeq(data, (k - 1) * size + 1,
                                        IF k * size < Len(data) THEN k * size
                                        ELSE Len(data)))
    IN  For(Body, <<>>, 1, (Len(data) + size - 1) \div size)

\* The length of RSCodec.encode's result for n bytes of data.
EncodedLen(n) ==
    LET size == RS_NSIZE - ERROR_CORRECTING_BYTES
    IN  n + ERROR_CORRECTING_BYTES * ((n + size - 1) \div size)

\* RSCodec.decode of data none of whose blocks is corrupted: the data is cut
\* into blocks of RS_NSIZE bytes; a block whose syndromes are all zero (its
\* last nsym bytes are the parity of the bytes before them) decodes to the
\* bytes before the parity.  A block with nonzero syndromes goes through
\* error correction, which no operation of this model needs (nothing
\* corrupts a carrier between hide and extract): it is reported as
\* ok = FALSE, the ReedSolomonError of a block that cannot be corrected.
RSDecode(data) ==
    LET Block(k) == SubSeq(data, (k - 1) * RS_NSIZE + 1,
                           IF k * RS_NSIZE < Len(data) THEN k * RS_NSIZE
                           ELSE Len(data))
        Body(dec, k) ==
            LET blk == Block(k)
                msg == SubSeq(blk, 1, Len(blk) - ERROR_CORRECTING_BYTES)
            IN  IF dec.ok /\ Len(blk) > ERROR_CORRECTING_BYTES
                          /\ rs_encode_msg(msg) = blk
                THEN [ok |-> TRUE, msg |-> dec.msg \o msg]
                ELSE [ok |-> FALSE, msg |-> <<>>]
    IN  For(Body, [ok |-> TRUE, msg |-> <<>>], 1,
            (Len(data) + RS_NSIZE - 1) \div RS_NSIZE)

----------------------------------------------------------------------------
(* CovertChannel: planning (hide, lines 143-185).                           *)

\* chunk_list: successive n-sized chunks of l.
chunk_list(l, n) ==
    [k \in 1..((Len(l) + n - 1) \div n) |->
        SubSeq(l, (k - 1) * n + 1, IF k * n < Len(l) THEN k * n ELSE Len(l))]
    \o <<>>

\* prepend_chunk: the index padded to 4 digits, then the data padded to 13.
prepend_chunk(index_val, data_val) ==
    prepend_zeroes(index_val, DIGITS_FOR_INDEX)
        \o prepend_zeroes(data_val, STORABLE_DIGITS_PER_FILE)

\* The position of the last '.' (byte 46) of s, 0 when there is none.
LastDot(s) ==
    IF \E i \in 1..Len(s) : s[i] = 46
    THEN CHOOSE i \in 1..Len(s) : s[i] = 46 /\ \A j \in (i + 1)..Len(s) : s[j] # 46
    ELSE 0

\* input_path.split('.')[-1]: what follows the last '.', the whole path when
\* it has none.
Extension(input_path) == DropFirst(input_path, LastDot(input_path))

\* file_data + b'.' + extension (lines 144-145).
Frame(file_data, input_path) == file_data \o <<46>> \o Extension(input_path)

\* Lines 151-152: zero bytes are put in front until the length is a multiple
\* of STORABLE_BYTES_PER_FILE.
PadFront(encoded_data) ==
    LET r == Len(encoded_data) % STORABLE_BYTES_PER_FILE
    IN  IF r = 0 THEN encoded_data
        ELSE Repeat(0, STORABLE_BYTES_PER_FILE - r) \o encoded_data

\* IndexDue with one '9' too few in the bound.
IndexDueShort(index) == index = 0 \/ index = Nines(DIGITS_FOR_INDEX - 1) - 1

\* The trigger of line 175: a new Index Record is due.
IndexDue(index) == index = 0 \/ index = Nines(DIGITS_FOR_INDEX) - 1

\* IndexRecord with the count taken after the next data chunk.
IndexRecordAfter(remaining_chunks) ==
    prepend_chunk(str(0), str(remaining_chunks - 1))

\* The Index Record of lines 177-178.
IndexRecord(remaining_chunks) == prepend_chunk(str(0), str(remaining_chunks))

\* One iteration of the loop of lines 169-185 on chunk c.  st holds the
\* loop's variables index, remaining_chunks and int_str_chunks, and error,
\* set by the raise of line 173 (which ends the loop and hide).
PlanStep(st, c) ==
    LET s == int_from_bytes(c)
    IN  IF st.error # "none" THEN st
        ELSE IF Len(s) > STORABLE_DIGITS_PER_FILE
        THEN [st EXCEPT !.error = "ChunkTooLarge"]
        ELSE LET due == IndexDue(st.index)
                 idx == IF due THEN 1 ELSE st.index
             IN  [index            |-> idx + 1,
                  remaining_chunks |->
                      IF due
                      THEN st.remaining_chunks - (Nines(DIGITS_FOR_INDEX) - 1)
                      ELSE st.remaining_chunks,
                  int_str_chunks   |->
                      (IF due
                       THEN Append(st.int_str_chunks,
                                   IndexRecord(st.remaining_chunks))
                       ELSE st.int_str_chunks)
                      \o <<prepend_chunk(str(idx), s)>>,
                  error            |-> st.error]

\* Lines 151-185 on the encoded stream: the planned Digit Strings, or the
\* error raised on the way (line 166, line 173).
Plan(encoded) ==
    LET data_chunks == chunk_list(PadFront(encoded), STORABLE_BYTES_PER_FILE)
        Body(st, k) == PlanStep(st, data_chunks[k])
    IN  IF Len(data_chunks) > Nines(DIGITS_FOR_INDEX) - 1
        THEN [index |-> 0, remaining_chunks |-> Len(data_chunks),
              int_str_chunks |-> <<>>, error |-> "CapacityExceeded"]
        ELSE For(Body,
                 [index |-> 0, remaining_chunks |-> Len(data_chunks),
                  int_str_chunks |-> <<>>, error |-> "none"],
                 1, Len(data_chunks))

----------------------------------------------------------------------------
(* Carriers and their timestamps.                                           *)
(*                                                                         *)
(* A carrier is a regular file of the storage directory, known by its path; *)
(* the carriers are numbered in the order of their paths.  Its times are   *)
(*   ctime = [sec, us]   creation time, whole seconds and microseconds,     *)
(*   atime = [sec, ns]   st_atime_ns as whole seconds and nanoseconds,      *)
(*   mtime = [sec, ns]   st_mtime_ns likewise.                              *)

\* The largest nanosecond part ns for which the float quotient
\* (sec * 10^9 + ns) / 1000000000 of floor_billionths is still below sec + 1.
\* The quotient is a double; for 2^30 <= sec < 2^31 (the years 2004 to 2038)
\* doubles are 2^-22 apart, so a nanosecond part above 10^9 * (1 - 2^-23),
\* that is above 999999880, rounds to sec + 1.
FLOAT_FLOOR_MAX_NS == 999999880

\* floor_billionths: math.floor(value / 1000000000) * 1000000000.
floor_billionths(value) ==
    [sec |-> IF value.ns > FLOAT_FLOOR_MAX_NS THEN value.sec + 1 ELSE value.sec,
     ns  |-> 0]

\* The order of get_file_list: sorted (ctime, path, atime_ns, mtime_ns)
\* tuples; paths are distinct, so ctime and then path decide.
FileBefore(carriers, p, q) ==
    LET a == carriers[p].ctime
        c == carriers[q].ctime
    IN  \/ a.sec < c.sec
        \/ a.sec = c.sec /\ a.us < c.us
        \/ a = c /\ p < q

\* get_file_list: the paths of the carriers, sorted.
get_file_list(carriers) ==
    LET Less(p, q) == FileBefore(carriers, p, q)
    IN  SortBy(Less, [p \in 1..Len(carriers) |-> p] \o <<>>)

\* ResetCarrier without the modification time.
ResetCarrierAccessOnly(file) ==
    [ctime |-> [sec |-> file.ctime.sec, us |-> 999999],
     atime |-> [sec |-> floor_billionths(file.atime).sec, ns |-> 9999999 * 100],
     mtime |-> file.mtime]

\* Lines 198-212: a carrier set to the sentinel pattern.  file is the
\* carrier as get_file_list saw it.
ResetCarrier(file) ==
    [ctime |-> [sec |-> file.ctime.sec, us |-> 999999],
     atime |-> [sec |-> floor_billionths(file.atime).sec, ns |-> 9999999 * 100],
     mtime |-> [sec |-> floor_billionths(file.mtime).sec, ns |-> 9999999 * 100]]

\* WriteCarrier with the access and modification digits exchanged.
WriteCarrierSwapped(file, c) ==
    [ctime |-> [sec |-> file.ctime.sec,
                us  |-> SmallInt(SubSeq(c, 1, 3)) * 1000],
     atime |-> [sec |-> floor_billionths(file.atime).sec,
                ns  |-> SmallInt(SubSeq(c, 11, 17)) * 100],
     mtime |-> [sec |-> floor_billionths(file.mtime).sec,
                ns  |-> SmallInt(SubSeq(c, 4, 10)) * 100]]

\* Lines 221-241: Digit String c written to a carrier.  file is the carrier
\* as get_file_list saw it, before the reset.
WriteCarrier(file, c) ==
    [ctime |-> [sec |-> file.ctime.sec,
                us  |-> SmallInt(SubSeq(c, 1, 3)) * 1000],
     atime |-> [sec |-> floor_billionths(file.atime).sec,
                ns  |-> SmallInt(SubSeq(c, 4, 10)) * 100],
     mtime |-> [sec |-> floor_billionths(file.mtime).sec,
                ns  |-> SmallInt(SubSeq(c, 11, 17)) * 100]]

\* Lines 330-341: the Digit String read back from a carrier.
ReadCarrier(file) ==
    prepend_zeroes(str(file.ctime.us \div 1000), 3)
        \o prepend_zeroes(str(file.atime.ns \div 100), 7)
        \o prepend_zeroes(str(file.mtime.ns \div 100), 7)

\* get_encoded_int_string: the Digit Strings of all carriers, in
\* get_file_list's order.
get_encoded_int_string(carriers) ==
    LET files == get_file_list(carriers)
    IN  [k \in 1..Len(files) |-> ReadCarrier(carriers[files[k]])] \o <<>>

----------------------------------------------------------------------------
(* CovertChannel.hide.                                                      *)

\* Lines 143-185: the plan hide makes for the input file (its path and its
\* bytes): int_str_chunks, or the error raised.
PlanInput(input_path, file_data) ==
    Plan(RSEncode(Frame(file_data, input_path)))

\* EnoughFiles with <= for <.
EnoughFilesStrict(nfiles, nchunks) == ~(nfiles <= nchunks)

\* Line 193: there are enough files for the planned Digit Strings.
EnoughFiles(nfiles, nchunks) == ~(nfiles < nchunks)

\* Lines 198-212: every file of file_list is reset.
ResetAll(carriers, files) ==
    LET Body(cs, k) == [cs EXCEPT ![files[k]] = ResetCarrier(carriers[files[k]])]
    IN  For(Body, carriers, 1, Len(files))

\* Lines 217-243: chunk i is written to the file at position i + offset of
\* file_list.  before holds the carriers as get_file_list saw them, whose
\* whole seconds the writes keep.
WriteAll(carriers, before, files, chunks, offset) ==
    LET Body(cs, i) ==
            [cs EXCEPT ![files[i + offset]] =
                           WriteCarrier(before[files[i + offset]], chunks[i])]
    IN  For(Body, carriers, 1, Len(chunks))

\* Hide with the reset loop run before the check of line 193.
HideResetFirst(carriers, planned, offset) ==
    LET chunks == planned.int_str_chunks
        files  == get_file_list(carriers)
    IN  IF planned.error # "none"
        THEN [status |-> planned.error, carriers |-> carriers,
              plan |-> <<>>, files |-> <<>>]
        ELSE IF ~EnoughFiles(Len(files), Len(chunks))
        THEN [status |-> "InsufficientCarriers",
              carriers |-> ResetAll(carriers, files),
              plan |-> chunks, files |-> files]
        ELSE [status |-> "hidden",
              carriers |-> WriteAll(ResetAll(carriers, files), carriers,
                                    files, chunks, offset),
              plan |-> chunks, files |-> files]

\* Lines 187-243: the outcome of hide on the carriers, for the plan made and
\* the offset random.randint draws at line 215: the error raised, with the
\* carriers untouched, or "hidden" with the carriers as hide leaves them.
\* files is get_file_list's order.
Hide(carriers, planned, offset) ==
    LET chunks == planned.int_str_chunks
        files  == get_file_list(carriers)
    IN  IF planned.error # "none"
        THEN [status |-> planned.error, carriers |-> carriers,
              plan |-> <<>>, files |-> <<>>]
        ELSE IF ~EnoughFiles(Len(files), Len(chunks))
        THEN [status |-> "InsufficientCarriers", carriers |-> carriers,
              plan |-> chunks, files |-> files]
        ELSE [status |-> "hidden",
              carriers |-> WriteAll(ResetAll(carriers, files), carriers,
                                    files, chunks, offset),
              plan |-> chunks, files |-> files]

----------------------------------------------------------------------------
(* CovertChannel.extract.                                                   *)

\* Lexicographic order of two strings, compared from position i on.
RECURSIVE StrLessFrom(_, _, _)
StrLessFrom(s, t, i) ==
    IF i > Len(t) THEN FALSE
    ELSE IF i > Len(s) THEN TRUE
    ELSE IF s[i] # t[i] THEN s[i] < t[i]
    ELSE StrLessFrom(s, t, i + 1)

StrLess(s, t) == StrLessFrom(s, t, 1)

\* sorted(strings), line 268.
sorted(strings) == SortBy(StrLess, strings)

\* DecodeField without the zero bytes put in front.
DecodeFieldNoPad(field) == int_to_bytes(int(field))

\* Lines 282-289: the bytes of a data field, zero bytes put in front while
\* they are fewer than STORABLE_BYTES_PER_FILE.
DecodeField(field) ==
    LET byte == int_to_bytes(int(field))
    IN  IF Len(byte) < STORABLE_BYTES_PER_FILE
        THEN Repeat(0, STORABLE_BYTES_PER_FILE - Len(byte)) \o byte
        ELSE byte

\* One iteration of the loop of lines 271-297.  st.stop is set by the break
\* of line 292.
ExtractStep(st, string) ==
    LET index == SmallInt(SubSeq(string, 1, DIGITS_FOR_INDEX))
        field == DropFirst(string, DIGITS_FOR_INDEX)
    IN  IF st.stop THEN st
        ELSE IF index # 0
        THEN IF ~st.found_start THEN st
             ELSE IF st.files_remaining > 0
             THEN [st EXCEPT !.files_remaining = @ - 1,
                             !.files_captured = @ + 1,
                             !.encoded_data = @ \o DecodeField(field)]
             ELSE [st EXCEPT !.stop = TRUE]
        ELSE [st EXCEPT !.found_start = TRUE,
                        !.files_remaining = SmallInt(field),
                        !.files_captured = @ + 1]

\* Lines 301-303: leading zero bytes are dropped; reading byte 0 of an empty
\* buffer raises IndexError (ok = FALSE).
TrimLeadingZeros(encoded_data) ==
    IF \A i \in 1..Len(encoded_data) : encoded_data[i] = 0
    THEN [ok |-> FALSE, data |-> <<>>]
    ELSE [ok |-> TRUE,
          data |-> DropFirst(encoded_data,
                       (CHOOSE i \in 1..Len(encoded_data) :
                           /\ encoded_data[i] # 0
                           /\ \A j \in 1..(i - 1) : encoded_data[j] = 0) - 1)]

\* The outcome of extract on the carriers: the error raised, or "extracted"
\* with the extension put after output_path and the bytes written.
Extract(carriers) ==
    LET strings == sorted(get_encoded_int_string(carriers))
        Body(st, k) == ExtractStep(st, strings[k])
        scanned == For(Body,
                       [found_start |-> FALSE, files_remaining |-> 0,
                        files_captured |-> 0, encoded_data |-> <<>>,
                        stop |-> FALSE],
                       1, Len(strings))
        trimmed == TrimLeadingZeros(scanned.encoded_data)
        decoded == RSDecode(trimmed.data)
        dot     == LastDot(decoded.msg)
    IN  IF ~trimmed.ok
        THEN [status |-> "IndexError", ext |-> <<>>, data |-> <<>>]
        ELSE IF ~decoded.ok
        THEN [status |-> "ReedSolomonError", ext |-> <<>>, data |-> <<>>]
        ELSE IF dot = 0
        THEN [status |-> "IndexError", ext |-> <<>>, data |-> <<>>]
        ELSE [status |-> "extracted",
              ext    |-> DropFirst(decoded.msg, dot),
              data   |-> SubSeq(decoded.msg, 1, dot - 1)]

----------------------------------------------------------------------------
(* The state machine.                                                       *)

VARIABLES
    carriers,        \* the storage directory: the carriers' times, by path
    input,           \* the input file: [path, data]
    hide_status,     \* how the last hide ended ("none" before the first)
    plan,            \* int_str_chunks of the last hide
    files,           \* get_file_list's order in the last hide
    offset,          \* the offset the last hide drew
    hides,           \* the number of hide runs so far
    extract_status,  \* how the last extract since the last hide ended
    output,          \* the output file: [ext, data, written]
    chunk,           \* a data chunk given to the digit codec on its own
    codec,           \* its Digit String: [status, string]
    decoded          \* the bytes read back from that string: [done, data]

vars == <<carriers, input, hide_status, plan, files, offset, hides,
          extract_status, output, chunk, codec, decoded>>

channel_vars == <<carriers, input, hide_status, plan, files, offset, hides,
                  extract_status, output>>

codec_vars == <<chunk, codec, decoded>>

\* Bounds of the model.
MaxPayloadLen == 1

MaxSpare == 1

MaxHides == 2

MaxPlanLen == 30

EpochSec == 1700000000

\* The byte values payloads are made of: zero, the separator '.', another.
PayloadBytes == {0, 46, 200}

\* Input paths: "p.b", "p.bin".
InputPaths == {<<112, 46, 98>>, <<112, 46, 98, 105, 110>>}

\* The byte sequences of length 0..n over S.
RECURSIVE SeqsUpTo(_, _)
SeqsUpTo(S, n) ==
    IF n = 0 THEN {<<>>}
    ELSE LET shorter == SeqsUpTo(S, n - 1)
         IN  shorter \cup {Append(t, x) : t \in shorter, x \in S}

\* The length of the frame of an input file (lines 143-145).
FrameLen(in) == Len(in.data) + 1 + Len(Extension(in.path))

\* The data chunks the frame of an input file needs: the length of its
\* encoded stream divided by STORABLE_BYTES_PER_FILE, rounded up.
DataChunks(in) ==
    (EncodedLen(FrameLen(in)) + STORABLE_BYTES_PER_FILE - 1)
        \div STORABLE_BYTES_PER_FILE

\* The data chunks of a window: 10^I - 2.
WindowSize == Nines(DIGITS_FOR_INDEX) - 1

\* N data chunks plus one Index Record per window of WindowSize chunks.
ChunksAndIndexRecords(N) == N + ((N + WindowSize - 1) \div WindowSize)

\* Directories of n carriers, as other programs left them.  "zero": files
\* whose times have no sub-second part, created one per second.  "mixed":
\* files created within the same second (some at the same microsecond), with
\* sub-second parts of all kinds, among them the sentinel value, a value
\* that is not a multiple of 100 ns and Index Record look-alikes.
InitialCarriers(n, kind) ==
    [p \in 1..n |->
        IF kind = "zero"
        THEN [ctime |-> [sec |-> EpochSec + p, us |-> 0],
              atime |-> [sec |-> EpochSec + p, ns |-> 0],
              mtime |-> [sec |-> EpochSec + p, ns |-> 0]]
        ELSE [ctime |-> [sec |-> EpochSec, us |-> ((n - p) % 97) * 10007],
              atime |-> [sec |-> EpochSec,
                         ns  |-> IF p % 3 = 0 THEN 999999900
                                 ELSE (p % 7) * 142857100],
              mtime |-> [sec |-> EpochSec + (p % 5),
                         ns  |-> IF p % 2 = 0 THEN 999999999
                                 ELSE (p % 5) * 100]]]
    \o <<>>

NoOutput == [ext |-> <<>>, data |-> <<>>, written |-> FALSE]

\* Nothing has run yet.
Fresh ==
    /\ hide_status = "none"
    /\ plan = <<>>
    /\ files = <<>>
    /\ offset = 0
    /\ hides = 0
    /\ extract_status = "none"
    /\ output = NoOutput

\* The digit codec is not run on its own.
CodecIdle ==
    /\ chunk = <<>>
    /\ codec = [status |-> "none", string |-> <<>>]
    /\ decoded = [done |-> FALSE, data |-> <<>>]

\* A short input file and a directory holding one carrier fewer than the
\* data chunks and Index Records of the file, or as many, or more.
Init ==
    /\ \E path \in InputPaths, data \in SeqsUpTo(PayloadBytes, MaxPayloadLen) :
           input = [path |-> path, data |-> data]
    /\ \E spare \in (0 - 1)..MaxSpare, kind \in {"zero", "mixed"} :
           carriers =
               InitialCarriers(ChunksAndIndexRecords(DataChunks(input)) + spare,
                               kind)
    /\ Fresh
    /\ CodecIdle

\* python timestamp_channel.py -p <storage_path> -i <input_path>
\* The offset is drawn only when hide gets as far as line 215.
HideAction ==
    /\ hides < MaxHides
    /\ \E planned \in {PlanInput(input.path, input.data)} :
       \E r \in 0..(IF planned.error = "none"
                       /\ EnoughFiles(Len(carriers), Len(planned.int_str_chunks))
                    THEN Len(carriers) - Len(planned.int_str_chunks)
                    ELSE 0) :
       \E done \in {Hide(carriers, planned, r)} :
           /\ hide_status' = done.status
           /\ carriers' = done.carriers
           /\ plan' = done.plan
           /\ files' = done.files
           /\ offset' = r
    /\ hides' = hides + 1
    /\ extract_status' = "none"
    /\ UNCHANGED <<input, output>>
    /\ UNCHANGED codec_vars

\* python timestamp_channel.py -p <storage_path> -o <output_path>
ExtractAction ==
    /\ \E got \in {Extract(carriers)} :
           /\ extract_status' = got.status
           /\ output' = IF got.status = "extracted"
                        THEN [ext |-> got.ext, data |-> got.data, written |-> TRUE]
                        ELSE output
    /\ UNCHANGED <<carriers, input, hide_status, plan, files, offset, hides>>
    /\ UNCHANGED codec_vars

Next == HideAction \/ ExtractAction

Spec == Init /\ [][Next]_vars

----------------------------------------------------------------------------
(* Payloads up to and past the capacity of the channel.                     *)

\* The longest frame whose encoded stream, made of whole Reed-Solomon
\* blocks, stays within WindowSize data chunks.
CapacityFrameLen ==
    ((WindowSize * STORABLE_BYTES_PER_FILE) \div RS_NSIZE)
        * (RS_NSIZE - ERROR_CORRECTING_BYTES)

\* The lengths of the input files: short ones, and the two around the
\* capacity (the file is named "p.b", so its frame is 2 bytes longer).
PlanLens == (0..MaxPlanLen) \cup {CapacityFrameLen - 2, CapacityFrameLen - 1}

\* Files of zero bytes named "p.b".
InitPlan ==
    /\ \E n \in PlanLens :
           input = [path |-> <<112, 46, 98>>, data |-> Repeat(0, n)]
    /\ \E spare \in (0 - 1)..MaxSpare :
           carriers =
               InitialCarriers(ChunksAndIndexRecords(DataChunks(input)) + spare,
                               "zero")
    /\ Fresh
    /\ CodecIdle

\* The first hide run on a directory.
FirstHide == hide_status = "none" /\ HideAction

SpecPlan == InitPlan /\ [][FirstHide]_vars

----------------------------------------------------------------------------
(* The example: 10 bytes 0x00..0x09 named "p.bin", 50 carriers.             *)

ExampleCarriers == 50

ExamplePayload == <<0, 1, 2, 3, 4, 5, 6, 7, 8, 9>>

InitExample ==
    /\ input = [path |-> <<112, 46, 98, 105, 110>>, data |-> ExamplePayload]
    /\ \E kind \in {"zero", "mixed"} :
           carriers = InitialCarriers(ExampleCarriers, kind)
    /\ Fresh
    /\ CodecIdle

NextExample == FirstHide \/ ExtractAction

SpecExample == InitExample /\ [][NextExample]_vars

----------------------------------------------------------------------------
(* The digit codec on one chunk: the step of hide's loop that renders a     *)
(* data chunk, and the step of extract's loop that reads it back.          *)

\* The byte values chunks are made of: the smallest, the largest, another.
CodecBytes == {0, 1, 255}

InitCodec ==
    /\ chunk \in SeqsUpTo(CodecBytes, STORABLE_BYTES_PER_FILE + 1)
    /\ codec = [status |-> "none", string |-> <<>>]
    /\ decoded = [done |-> FALSE, data |-> <<>>]
    /\ carriers = <<>>
    /\ input = [path |-> <<>>, data |-> <<>>]
    /\ Fresh

\* Lines 170-184 on the chunk, inside a window (the index is 1, no Index
\* Record is due).
EncodeChunk ==
    /\ codec.status = "none"
    /\ \E st \in {PlanStep([index |-> 1, remaining_chunks |-> 1,
                            int_str_chunks |-> <<>>, error |-> "none"],
                           chunk)} :
           codec' = IF st.error = "none"
                    THEN [status |-> "encoded", string |-> st.int_str_chunks[1]]
                    ELSE [status |-> st.error, string |-> <<>>]
    /\ UNCHANGED <<chunk, decoded>>
    /\ UNCHANGED channel_vars

\* Lines 272-290 on the Digit String, after an Index Record that announced
\* one data chunk.
DecodeChunk ==
    /\ codec.status = "encoded"
    /\ ~decoded.done
    /\ \E st \in {ExtractStep([found_start |-> TRUE, files_remaining |-> 1,
                               files_captured |-> 1, encoded_data |-> <<>>,
                               stop |-> FALSE],
                              codec.string)} :
           decoded' = [done |-> TRUE, data |-> st.encoded_data]
    /\ UNCHANGED <<chunk, codec>>
    /\ UNCHANGED channel_vars

NextCodec == EncodeChunk \/ DecodeChunk

SpecCodec == InitCodec /\ [][NextCodec]_vars

----------------------------------------------------------------------------
(* Properties.                                                              *)

\* The two fields of a Digit String.
IndexField(string) == SmallInt(SubSeq(string, 1, DIGITS_FOR_INDEX))

DataField(string) == DropFirst(string, DIGITS_FOR_INDEX)

\* The Digit String of a carrier that was reset and not written.
SentinelString == Repeat(9, TOTAL_DIGITS)

\* An extract has run on what the last hide wrote.
ExtractedAfterHide == hide_status = "hidden" /\ extract_status # "none"

\* C1: after a successful hide, at whatever offset, extract on the same
\* carriers gives back the bytes of the input file and its extension.
RoundTrip ==
    ExtractedAfterHide
        => /\ extract_status = "extracted"
           /\ output.data = input.data
           /\ output.ext = Extension(input.path)

\* C2, as claimed: hide succeeds exactly when the carriers are at least the
\* N data chunks plus one Index Record per window of 10^I - 2, and fails
\* with InsufficientCarriers or CapacityExceeded otherwise.
CapacityBoundClaimed ==
    hide_status # "none"
        => /\ hide_status = "hidden"
                  <=> Len(carriers) >= ChunksAndIndexRecords(DataChunks(input))
           /\ hide_status # "hidden"
                  => hide_status \in {"InsufficientCarriers", "CapacityExceeded"}

\* C2, amended: when N is at most 10^I - 2, hide succeeds exactly when the
\* carriers are at least N + 1 and fails with InsufficientCarriers otherwise;
\* when N is more than 10^I - 2, hide fails with CapacityExceeded whatever
\* the number of carriers.
CapacityBound ==
    hide_status # "none"
        => IF DataChunks(input) <= WindowSize
           THEN /\ Len(carriers) >= DataChunks(input) + 1
                       => hide_status = "hidden"
                /\ Len(carriers) < DataChunks(input) + 1
                       => hide_status = "InsufficientCarriers"
           ELSE hide_status = "CapacityExceeded"

\* C2: a hide that failed with CapacityExceeded although the carriers were
\* as many as the data chunks and an Index Record per window.
CapacityExceededWithCarriers ==
    /\ hide_status = "CapacityExceeded"
    /\ Len(carriers) >= ChunksAndIndexRecords(DataChunks(input))

\* C3: a hide run that planned more Digit Strings than there are carriers
\* ends with InsufficientCarriers and leaves every carrier's three times as
\* they were.
InsufficientLeavesCarriers ==
    [][(hides' = hides + 1 /\ Len(plan') > Len(carriers))
           => (hide_status' = "InsufficientCarriers" /\ carriers' = carriers)]_vars

\* C3: a hide failed for want of carriers, on carriers with times of their
\* own (a time no hide writes among them).
InsufficientSeen ==
    /\ hide_status = "InsufficientCarriers"
    /\ Len(carriers) < Len(plan)
    /\ \E p \in 1..Len(carriers) : carriers[p].mtime.ns = 999999999

\* The position in file_list of the carriers hide wrote.
InWindow(k) == k > offset /\ k <= offset + Len(plan)

\* The sentinel pattern: creation 999 ms (999999 us), access and modified
\* 9999999 hundred-nanosecond units, read back with index field 9999.
IsSentinel(file) ==
    /\ file.ctime.us = 999999
    /\ file.atime.ns = 9999999 * 100
    /\ file.mtime.ns = 9999999 * 100
    /\ ReadCarrier(file) = SentinelString
    /\ IndexField(ReadCarrier(file)) = Nines(DIGITS_FOR_INDEX)

\* C4: after a successful hide every carrier outside the written window has
\* the sentinel pattern in its three times, whatever they were before.
SentinelUniformity ==
    hide_status = "hidden"
        => \A k \in 1..Len(files) :
               ~InWindow(k) => IsSentinel(carriers[files[k]])

\* C4: a second hide succeeded, at an offset past the first carrier, on
\* carriers an earlier hide had written.
SecondHideWithSpare ==
    /\ hide_status = "hidden"
    /\ hides = 2
    /\ offset > 0
    /\ Len(carriers) > Len(plan)

\* C5: after a successful hide the sorted Digit Strings of all carriers are
\* the planned Digit Strings in plan order, then the sentinel strings of the
\* carriers not written.
SortOrderIsWriteOrder ==
    hide_status = "hidden"
        => sorted(get_encoded_int_string(carriers))
               = plan \o Repeat(SentinelString, Len(carriers) - Len(plan))

\* C5: a hide succeeded at an offset past the first carrier of a file_list
\* that is not in the order of the paths.
HiddenAtOffset ==
    /\ hide_status = "hidden"
    /\ offset > 0
    /\ files[1] # 1
    /\ Len(plan) > 2

\* C6: for the 10 bytes 0x00..0x09 named with extension "bin" and 50
\* carriers, hide succeeds and writes at most 3 Digit Strings, and extract
\* recovers the same 10 bytes and the extension "bin".
ExampleAsClaimed ==
    /\ hide_status # "none" => (hide_status = "hidden" /\ Len(plan) <= 3)
    /\ ExtractedAfterHide
           => /\ extract_status = "extracted"
              /\ output.data = ExamplePayload
              /\ output.ext = <<98, 105, 110>>

\* C7, as claimed: every chunk of at most C bytes comes back from its data
\* field as it was.
CodecInverseClaimed ==
    (decoded.done /\ Len(chunk) <= STORABLE_BYTES_PER_FILE)
        => decoded.data = chunk

\* C7, amended: a chunk of exactly C bytes comes back from its data field as
\* it was; a shorter chunk comes back with zero bytes in front, C bytes long.
CodecInverse ==
    (decoded.done /\ Len(chunk) <= STORABLE_BYTES_PER_FILE)
        => decoded.data
               = Repeat(0, STORABLE_BYTES_PER_FILE - Len(chunk)) \o chunk

\* C7: a chunk of C bytes that begins with a zero byte and ends with 255 was
\* rendered and read back.
CodecRoundTripDone ==
    /\ decoded.done
    /\ Len(chunk) = STORABLE_BYTES_PER_FILE
    /\ chunk[1] = 0
    /\ chunk[Len(chunk)] = 255

\* C8: every Index Record of a plan (index field 0000, the first Digit
\* String among them) holds in its data field the number of data chunks that
\* follow it in the plan.
IndexRecordCountsRemaining ==
    plan # <<>>
        => /\ IndexField(plan[1]) = 0
           /\ \A k \in 1..Len(plan) :
                  IndexField(plan[k]) = 0
                      => SmallInt(DataField(plan[k]))
                             = Cardinality({j \in (k + 1)..Len(plan) :
                                               IndexField(plan[j]) # 0})

\* C8: the plan of the longest frame the channel takes was made, its Index
\* Record announcing every data chunk of the frame.
CapacityPlanAnnounced ==
    /\ hide_status = "hidden"
    /\ FrameLen(input) = CapacityFrameLen
    /\ SmallInt(DataField(plan[1])) = DataChunks(input)

\* C9: a plan is one Index Record followed by the N data chunks of the
\* frame tagged 1..N, N at most 10^I - 2; no Digit String is tagged 10^I - 1.
WindowTags ==
    plan # <<>>
        => /\ Len(plan) = DataChunks(input) + 1
           /\ DataChunks(input) <= WindowSize
           /\ IndexField(plan[1]) = 0
           /\ \A k \in 2..Len(plan) : IndexField(plan[k]) = k - 1
           /\ \A k \in 1..Len(plan) :
                  IndexField(plan[k]) # Nines(DIGITS_FOR_INDEX)

\* C9: the plan of the longest frame the channel takes was made, its last
\* data chunk tagged with their number.
CapacityPlanTagged ==
    /\ plan # <<>>
    /\ FrameLen(input) = CapacityFrameLen
    /\ IndexField(plan[Len(plan)]) = DataChunks(input)
    /\ DataChunks(input) > Nines(DIGITS_FOR_INDEX - 1)

\* The decimal digits of the value of a chunk.
ChunkDigits(c) == Len(int_from_bytes(c))

\* C10, as claimed: every chunk of at most C bytes is rendered, in at most
\* D - 1 = 12 digits.
CapacityFitsClaimed ==
    (codec.status # "none" /\ Len(chunk) <= STORABLE_BYTES_PER_FILE)
        => /\ codec.status = "encoded"
           /\ ChunkDigits(chunk) <= STORABLE_DIGITS_PER_FILE - 1

\* C10, amended: every chunk of at most C bytes is rendered, in at most
\* D = 13 digits (the chunk of C bytes 255 takes all 13), so the width check
\* never fires; C + 1 bytes 255 do not fit in D digits, so C is the largest
\* byte count whose values all fit in D digits.
CapacityFits ==
    codec.status # "none"
        => /\ Len(chunk) <= STORABLE_BYTES_PER_FILE
                  => /\ codec.status = "encoded"
                     /\ ChunkDigits(chunk) <= STORABLE_DIGITS_PER_FILE
                     /\ DataField(codec.string)
                            = prepend_zeroes(int_from_bytes(chunk),
                                             STORABLE_DIGITS_PER_FILE)
           /\ chunk = Repeat(255, STORABLE_BYTES_PER_FILE)
                  => ChunkDigits(chunk) = STORABLE_DIGITS_PER_FILE
           /\ chunk = Repeat(255, STORABLE_BYTES_PER_FILE + 1)
                  => codec.status = "ChunkTooLarge"

\* C10: the chunk of C bytes 255 was rendered.
LargestChunkRendered ==
    /\ codec.status = "encoded"
    /\ chunk = Repeat(255, STORABLE_BYTES_PER_FILE)
    /\ Len(int(DataField(codec.string))) = STORABLE_DIGITS_PER_FILE

=============================================================================
